---- MODULE Spec2Model ----
(***************************************************************************)
(* Model of the process safety-and-control subsystem of SysMCP:            *)
(*   server/config.py        Config (allowlist, rate limit)                *)
(*   server/security.py      RateLimiter.allow, process_is_safe            *)
(*   server/process_tools.py process_kill_safe                             *)
(*   server/main.py          the kill_process tool                         *)
(* Strings are sequences of one-character strings, so that lowercasing,    *)
(* stripping, splitting and substring search are computed.  The clock is   *)
(* time.time() read in whole seconds.                                      *)
(***************************************************************************)
EXTENDS Integers, Sequences, FiniteSets, TLC

(***************************************************************************)
(* Bounds of the model.                                                    *)
(***************************************************************************)
\* largest configured PROCESS_KILL_RATE_LIMIT_PER_MIN explored
MaxLimit == 2
\* the clock stops advancing at this many seconds
MaxTime == 120
\* allow() calls counted in the first 60-second span
MaxCalls == 4
\* largest limit argument of list_processes explored
MaxListLimit == 2
\* largest window_s and top_n arguments of get_system_summary explored
MaxWindowArg == 61
MaxTopArg == 11
\* the size of the largest process table get_system_summary is run on
MaxProcs == 12
\* concurrent callers of kill_process
MaxCallers == 2

(***************************************************************************)
(* Program constants.                                                      *)
(***************************************************************************)
\* security.py:21   cutoff = now - 60
WINDOW == 60
\* config.py:28,31  default of PROCESS_KILL_RATE_LIMIT_PER_MIN
DEFAULT_RATE_LIMIT == 2

\* granularity of the modelled clock: half of the window, so that an age of
\* exactly 60 seconds and ages on both sides of it occur
ClockStep == WINDOW \div 2

Min(a, b) == IF a <= b THEN a ELSE b

Max(a, b) == IF a >= b THEN a ELSE b

Range(f) == { f[i] : i \in DOMAIN f }

(***************************************************************************)
(* Strings.                                                                *)
(***************************************************************************)
\* str.lower() on one character
LowerChar(c) ==
    CASE c = "A" -> "a"
      [] c = "B" -> "b"
      [] c = "C" -> "c"
      [] OTHER -> c

\* str.lower()
ToLower(s) == [i \in 1..Len(s) |-> LowerChar(s[i])]

RECURSIVE LStrip(_)
LStrip(s) ==
    IF s # <<>> /\ Head(s) = " " THEN LStrip(Tail(s)) ELSE s

RECURSIVE RStrip(_)
RStrip(s) ==
    IF s # <<>> /\ s[Len(s)] = " " THEN RStrip(SubSeq(s, 1, Len(s) - 1)) ELSE s

\* str.strip()
Strip(s) == RStrip(LStrip(s))

\* str.split(","): the pieces between commas, empty pieces included
RECURSIVE SplitFrom(_, _, _)
SplitFrom(s, i, cur) ==
    IF i > Len(s) THEN <<cur>>
    ELSE IF s[i] = "," THEN <<cur>> \o SplitFrom(s, i + 1, <<>>)
    ELSE SplitFrom(s, i + 1, Append(cur, s[i]))

Split(s) == SplitFrom(s, 1, <<>>)

Contains_prefix(b, a) ==
    Len(a) <= Len(b) /\ SubSeq(b, 1, Len(a)) = a
\* Python's  a in b  on strings: a occurs as a contiguous substring of b
Contains(b, a) ==
    \E i \in 0..(Len(b) - Len(a)) : SubSeq(b, i + 1, i + Len(a)) = a

(***************************************************************************)
(* Config (config.py).                                                     *)
(***************************************************************************)
\* values of the environment variable PROCESS_KILL_ALLOWLIST
EnvAllowlists ==
    { <<" ", "A", ",", "c", "b", " ">>,
      <<"C", ",", ",", " ">> }

\* Config.__init__: the allowlist set comprehension
ParseAllowlist(allowlist_str) ==
    LET parts == Split(allowlist_str)
    IN { ToLower(Strip(parts[i])) :
            i \in { j \in 1..Len(parts) : Strip(parts[j]) # <<>> } }

Digits == <<"0", "1", "2", "3", "4", "5", "6", "7", "8", "9">>

IsDigit(c) == \E d \in 1..Len(Digits) : Digits[d] = c

DigitValue(c) == (CHOOSE d \in 1..Len(Digits) : Digits[d] = c) - 1

RECURSIVE DecimalValue(_)
DecimalValue(s) ==
    IF s = <<>> THEN 0
    ELSE 10 * DecimalValue(SubSeq(s, 1, Len(s) - 1)) + DigitValue(s[Len(s)])

\* values of the environment variable PROCESS_KILL_RATE_LIMIT_PER_MIN:
\* the decimal literals of 0..MaxLimit, and text that int() rejects
EnvRateLimits ==
    { <<Digits[n + 1]>> : n \in 0..MaxLimit } \cup { <<"a">>, <<>> }

\* Config.__init__: int(os.getenv(...)) with the ValueError fallback
ParseRateLimit(v) ==
    IF v # <<>> /\ \A i \in 1..Len(v) : IsDigit(v[i])
    THEN DecimalValue(v)
    ELSE DEFAULT_RATE_LIMIT

(***************************************************************************)
(* RateLimiter (security.py).                                              *)
(***************************************************************************)
RECURSIVE Purge_inclusive(_, _)
Purge_inclusive(ts, cutoff) ==
    IF ts # <<>> /\ Head(ts) <= cutoff
    THEN Purge_inclusive(Tail(ts), cutoff) ELSE ts
\* allow(): while self.timestamps and self.timestamps[0] < cutoff: popleft()
RECURSIVE Purge(_, _)
Purge(ts, cutoff) ==
    IF ts # <<>> /\ Head(ts) < cutoff THEN Purge(Tail(ts), cutoff) ELSE ts

Cutoff_double(t) == t - 2 * WINDOW
\* the cutoff of allow() at clock value t
Cutoff(t) == t - WINDOW

AllowResult_offbyone(ts, t, max) == Len(Purge(ts, Cutoff(t))) <= max
\* allow(): the value returned at clock value t
AllowResult(ts, t, max) == ~ (Len(Purge(ts, Cutoff(t))) >= max)

AllowWindow_purgeonly(ts, t, max) == Purge(ts, Cutoff(t))
AllowWindow_recorddenied(ts, t, max) ==
    IF AllowResult(ts, t, max)
    THEN Append(Purge(ts, Cutoff(t)), t)
    ELSE IF Purge(ts, Cutoff(t)) = <<>>
    THEN <<>>
    ELSE Append(Tail(Purge(ts, Cutoff(t))), t)
AllowWindow_always(ts, t, max) == Append(Purge(ts, Cutoff(t)), t)
\* allow(): self.timestamps after the call at clock value t
AllowWindow(ts, t, max) ==
    IF AllowResult(ts, t, max)
    THEN Append(Purge(ts, Cutoff(t)), t)
    ELSE Purge(ts, Cutoff(t))

(***************************************************************************)
(* The operating system as psutil shows it.                                *)
(***************************************************************************)
\* the names the process table gives, by pid; pid 1 is the init process
Names == << <<"i">>, <<"x", "A", "b">> >>

Pids == DOMAIN Names

ProcName(pid) == Names[pid]

OK == "ok"
NA == "n/a"
NoSuchProcess == "NoSuchProcess"
AccessDenied == "AccessDenied"
TimeoutExpired == "TimeoutExpired"
OSError == "OSError"

\* psutil.Process(pid) followed by proc.name()
ResolveOutcomes(pid, live) ==
    IF pid \in live THEN {OK, AccessDenied} ELSE {NoSuchProcess}

\* the same lookup made again inside process_is_safe, on a process the
\* existence check has just resolved: it may have exited in between
ResolveAgainOutcomes == {OK, NoSuchProcess}

\* proc.terminate() / proc.kill() on a handle whose process may have exited
SignalOutcomes(stillThere) ==
    IF stillThere THEN {OK, NoSuchProcess, AccessDenied} ELSE {NoSuchProcess}

\* proc.wait(timeout=3): returns, raises TimeoutExpired, or fails otherwise
WaitOutcomes == {OK, TimeoutExpired, OSError}

(***************************************************************************)
(* process_is_safe (security.py).                                          *)
(***************************************************************************)
\* the allowlist loop:  any(allowed.lower() in proc_name)
Allowlisted(proc_name, allowlist) ==
    \E allowed \in allowlist : Contains(proc_name, ToLower(allowed))

process_is_safe_always_listed(resolved, name, require_allowlist, allowlist) ==
    IF resolved = NoSuchProcess
    THEN [is_safe |-> FALSE, reason |-> "Process does not exist"]
    ELSE IF resolved = AccessDenied
    THEN [is_safe |-> FALSE, reason |-> "Access denied"]
    ELSE IF Allowlisted(ToLower(name), allowlist)
    THEN [is_safe |-> TRUE, reason |-> "is allowlisted"]
    ELSE [is_safe |-> FALSE, reason |-> "not in allowlist"]
\* resolved is what psutil.Process(pid) / proc.name() did, name the name read
process_is_safe(resolved, name, require_allowlist, allowlist) ==
    IF resolved = NoSuchProcess
    THEN [is_safe |-> FALSE, reason |-> "Process does not exist"]
    ELSE IF resolved = AccessDenied
    THEN [is_safe |-> FALSE, reason |-> "Access denied"]
    ELSE IF ~ require_allowlist
    THEN [is_safe |-> TRUE, reason |-> "Allowlist check bypassed"]
    ELSE IF Allowlisted(ToLower(name), allowlist)
    THEN [is_safe |-> TRUE, reason |-> "is allowlisted"]
    ELSE [is_safe |-> FALSE, reason |-> "not in allowlist"]

(***************************************************************************)
(* process_kill_safe (process_tools.py).                                   *)
(* A result is the returned dictionary {ok, message}, or the exception     *)
(* that left the function (raised # "none"); trace lists the calls made    *)
(* on the operating system, in order.  Messages are named by their text    *)
(* up to the interpolated pid and process name.                            *)
(***************************************************************************)
Returned(ok, message, trace) ==
    [ok |-> ok, message |-> message, raised |-> "none", trace |-> trace]

Raised(exc, trace) ==
    [ok |-> FALSE, message |-> "none", raised |-> exc, trace |-> trace]

MsgRateLimit == "Rate limit exceeded. Max N kills per minute."
MsgNotExist == "Process does not exist"
MsgAccessDenied == "Access denied to process"
MsgNotAllowlisted ==
    "Process not in allowlist. Set confirm=true AND unsafe=true to proceed."
MsgConfirm == "Confirmation required. Set confirm=true to proceed."
MsgDryRun == "[DRY RUN] Would kill process"
MsgTerminated == "Successfully terminated process"
MsgForceKilled == "Forcefully killed process"
MsgFailed == "Failed to kill process: str(e)"

\* a request: the arguments of process_kill_safe
Requests ==
    [pid : Pids, confirm : BOOLEAN, unsafe : BOOLEAN, dry_run : BOOLEAN]

\* if not kill_rate_limiter.allow()
RateGateRejects(req, allowed) == ~ allowed

SafetyGateRejects_and(req, safety_check) ==
    ~ safety_check.is_safe /\ (~ req.confirm /\ ~ req.unsafe)
\* if not safety_check["is_safe"]: if not confirm or not unsafe
SafetyGateRejects(req, safety_check) ==
    ~ safety_check.is_safe /\ (~ req.confirm \/ ~ req.unsafe)

ConfirmGateRejects_skipdry(req) == ~ req.confirm /\ ~ req.dry_run
\* if not confirm
ConfirmGateRejects(req) == ~ req.confirm

DryRunShortCircuit_safeonly(req) == req.dry_run /\ ~ req.unsafe
\* if dry_run
DryRunShortCircuit(req) == req.dry_run

\* the try statement around proc.terminate(); proc.wait(timeout=3):
\* tr, w, k are what terminate(), wait() and kill() did
Termination(tr, w, k, trace) ==
    IF tr # OK
    THEN Returned(FALSE, MsgFailed, trace \o <<"terminate">>)
    ELSE IF w = OK
    THEN Returned(TRUE, MsgTerminated, trace \o <<"terminate", "wait">>)
    ELSE IF w = TimeoutExpired
    THEN \* except psutil.TimeoutExpired: proc.kill() runs inside the
         \* handler, so what it raises is not caught by the except
         \* Exception clause of the same try statement
         IF k = OK
         THEN Returned(TRUE, MsgForceKilled,
                       trace \o <<"terminate", "wait", "kill">>)
         ELSE Raised(k, trace \o <<"terminate", "wait", "kill">>)
    ELSE Returned(FALSE, MsgFailed, trace \o <<"terminate", "wait">>)

\* the gates after the rate gate
AfterRateGate(req, r1, r2, allowlist, tr, w, k) ==
    IF r1 = NoSuchProcess
    THEN Returned(FALSE, MsgNotExist, <<"Process">>)
    ELSE IF r1 = AccessDenied
    THEN Returned(FALSE, MsgAccessDenied, <<"Process">>)
    ELSE
      LET safety_check ==
              process_is_safe(r2, ProcName(req.pid), ~ req.unsafe, allowlist)
          trace == <<"Process", "process_is_safe">>
      IN IF SafetyGateRejects(req, safety_check)
         THEN Returned(FALSE, MsgNotAllowlisted, trace)
         ELSE IF ConfirmGateRejects(req)
         THEN Returned(FALSE, MsgConfirm, trace)
         ELSE IF DryRunShortCircuit(req)
         THEN Returned(TRUE, MsgDryRun, trace)
         ELSE Termination(tr, w, k, trace)

process_kill_safe_existence_first(req, allowed, r1, r2, allowlist, tr, w, k) ==
    IF r1 # OK
    THEN AfterRateGate(req, r1, r2, allowlist, tr, w, k)
    ELSE IF RateGateRejects(req, allowed)
    THEN Returned(FALSE, MsgRateLimit, <<"Process">>)
    ELSE AfterRateGate(req, r1, r2, allowlist, tr, w, k)
\* allowed: what kill_rate_limiter.allow() returned; r1: the lookup of the
\* existence check; r2: the lookup inside process_is_safe; tr, w, k: what
\* terminate(), wait() and kill() did
process_kill_safe(req, allowed, r1, r2, allowlist, tr, w, k) ==
    IF RateGateRejects(req, allowed)
    THEN Returned(FALSE, MsgRateLimit, <<>>)
    ELSE AfterRateGate(req, r1, r2, allowlist, tr, w, k)

\* the signals a call sent, in order
Signals(trace) == SelectSeq(trace, LAMBDA c : c \in {"terminate", "kill"})

(***************************************************************************)
(* State.                                                                  *)
(***************************************************************************)
VARIABLES
    now,                    \* time.time()
    PROCESS_KILL_ALLOWLIST, \* config.PROCESS_KILL_ALLOWLIST
    max_per_minute,         \* kill_rate_limiter.max_per_minute
    timestamps,             \* kill_rate_limiter.timestamps
    alive,                  \* the pids the process table holds
    call,                   \* the call that has just returned, if any
    term_log,               \* clock values of the calls that sent terminate()
                            \* during the trailing 60 seconds
    span,                   \* the allow() calls of the 60 seconds that follow
                            \* the first one, counted up to MaxCalls
    callers                 \* where each concurrent caller of allow() stands

vars == <<now, PROCESS_KILL_ALLOWLIST, max_per_minute, timestamps, alive,
          call, term_log, span, callers>>

NoCall == [op |-> "none"]

NoSpan == [start |-> -1, calls |-> 0, granted |-> 0]

\* the callers that may be inside allow() at the same time
Callers == 1..MaxCallers

\* a caller that has not yet called allow()
IdleCaller == [pc |-> "idle", now |-> 0, ret |-> FALSE]

\* the span record after an allow() call at clock value t that returned ret
SpanAfter(sp, t, ret) ==
    IF sp.start = -1
    THEN [start |-> t, calls |-> 1, granted |-> IF ret THEN 1 ELSE 0]
    ELSE IF t <= sp.start + WINDOW /\ sp.calls < MaxCalls
    THEN [sp EXCEPT !.calls = @ + 1,
                    !.granted = IF ret THEN @ + 1 ELSE @]
    ELSE sp

\* the entries of a log that are no older than 60 seconds at clock value t
Trailing(log, t) == SelectSeq(log, LAMBDA x : x >= t - WINDOW)

\* the number of recorded timestamps no older than 60 seconds at clock value t
InWindow(ts, t) == Len(Trailing(ts, t))

\* config = Config(); kill_rate_limiter = RateLimiter(...)
Init ==
    /\ now = 0
    /\ \E allowlist_str \in EnvAllowlists :
           PROCESS_KILL_ALLOWLIST = ParseAllowlist(allowlist_str)
    /\ \E v \in EnvRateLimits : max_per_minute = ParseRateLimit(v)
    /\ timestamps = <<>>
    /\ alive = Pids
    /\ call = NoCall
    /\ term_log = <<>>
    /\ span = NoSpan
    /\ callers = [th \in Callers |-> IdleCaller]

(***************************************************************************)
(* Operations.                                                             *)
(***************************************************************************)
\* RateLimiter.allow() called on kill_rate_limiter
allow ==
    LET ret == AllowResult(timestamps, now, max_per_minute)
    IN /\ timestamps' = AllowWindow(timestamps, now, max_per_minute)
       /\ call' = [op |-> "allow", ret |-> ret, before |-> timestamps]
       /\ UNCHANGED <<now, PROCESS_KILL_ALLOWLIST, max_per_minute, alive,
                      term_log, span,
                      callers>>

\* the same call, counted in span
allow_counted ==
    LET ret == AllowResult(timestamps, now, max_per_minute)
    IN /\ timestamps' = AllowWindow(timestamps, now, max_per_minute)
       /\ call' = [op |-> "allow", ret |-> ret, before |-> timestamps]
       /\ span' = SpanAfter(span, now, ret)
       /\ UNCHANGED <<now, PROCESS_KILL_ALLOWLIST, max_per_minute, alive,
                      term_log,
                      callers>>

\* the process table after a call: the process is gone when a lookup or a
\* signal found it gone, when it exited within the wait, or when kill() hit
AliveAfter(live, pid, r2, tr, w, k) ==
    IF \/ r2 = NoSuchProcess
       \/ tr = NoSuchProcess
       \/ (tr = OK /\ w = OK)
       \/ (tr = OK /\ w = TimeoutExpired /\ k \in {OK, NoSuchProcess})
    THEN live \ {pid}
    ELSE live

\* the kill_process tool: process_kill_safe(pid, confirm, unsafe, dry_run)
kill_process ==
    \E req \in Requests :
      LET allowed == AllowResult(timestamps, now, max_per_minute)
      IN
      \E r1 \in ResolveOutcomes(req.pid, alive) :
      \E r2 \in (IF ~ RateGateRejects(req, allowed) /\ r1 = OK
                 THEN ResolveAgainOutcomes ELSE {NA}) :
        LET safety_check ==
                process_is_safe(r2, ProcName(req.pid), ~ req.unsafe,
                                PROCESS_KILL_ALLOWLIST)
            terminates ==
                /\ r2 # NA
                /\ ~ SafetyGateRejects(req, safety_check)
                /\ ~ ConfirmGateRejects(req)
                /\ ~ DryRunShortCircuit(req)
        IN
        \E tr \in (IF terminates
                   THEN SignalOutcomes(r2 # NoSuchProcess) ELSE {NA}) :
        \E w \in (IF tr = OK THEN WaitOutcomes ELSE {NA}) :
        \E k \in (IF w = TimeoutExpired THEN SignalOutcomes(TRUE) ELSE {NA}) :
          LET res == process_kill_safe(req, allowed, r1, r2,
                                       PROCESS_KILL_ALLOWLIST, tr, w, k)
          IN /\ timestamps' = AllowWindow(timestamps, now, max_per_minute)
             /\ call' = [op |-> "kill_process", req |-> req,
                         allowed |-> allowed,
                         full |-> InWindow(timestamps, now) >= max_per_minute,
                         r1 |-> r1, r2 |-> r2, w |-> w, res |-> res]
             /\ term_log' = IF Signals(res.trace) # <<>>
                            THEN Append(Trailing(term_log, now), now)
                            ELSE Trailing(term_log, now)
             /\ alive' = AliveAfter(alive, req.pid, r2, tr, w, k)
             /\ UNCHANGED <<now, PROCESS_KILL_ALLOWLIST, max_per_minute,
                            span,
                            callers>>

(***************************************************************************)
(* Environment.                                                            *)
(***************************************************************************)
\* the clock advances
Tick ==
    /\ now + ClockStep <= MaxTime
    /\ now' = now + ClockStep
    /\ term_log' = Trailing(term_log, now')
    /\ span' = IF span.start >= 0 /\ now' > span.start + WINDOW
               THEN [start |-> -2, calls |-> 0, granted |-> 0]
               ELSE span
    /\ call' = NoCall
    /\ UNCHANGED <<PROCESS_KILL_ALLOWLIST, max_per_minute, timestamps, alive,
                   callers>>

\* a process exits on its own
ProcExit ==
    \E pid \in alive :
        /\ alive' = alive \ {pid}
        /\ call' = NoCall
        /\ UNCHANGED <<now, PROCESS_KILL_ALLOWLIST, max_per_minute,
                       timestamps, term_log, span,
                       callers>>

\* a process is started
ProcSpawn ==
    \E pid \in Pids \ alive :
        /\ alive' = alive \cup {pid}
        /\ call' = NoCall
        /\ UNCHANGED <<now, PROCESS_KILL_ALLOWLIST, max_per_minute,
                       timestamps, term_log, span,
                       callers>>

Next == allow \/ kill_process \/ Tick \/ ProcExit \/ ProcSpawn

Spec == Init /\ [][Next]_vars

\* the kill_process tool as the only caller of the limiter
NextBudget == kill_process \/ Tick \/ ProcExit \/ ProcSpawn

SpecBudget == Init /\ [][NextBudget]_vars

(***************************************************************************)
(* allow() run by several callers of kill_process at once.  RateLimiter    *)
(* holds no lock, so the callers' statements interleave; each action below *)
(* is one statement of allow() run by caller th.                           *)
(***************************************************************************)
OtherUnchanged ==
    UNCHANGED <<now, PROCESS_KILL_ALLOWLIST, max_per_minute, alive, call,
                term_log, span>>

\* now = time.time(); cutoff = now - 60
allow_enter(th) ==
    /\ callers[th].pc = "idle"
    /\ callers' = [callers EXCEPT ![th] = [@ EXCEPT !.pc = "purge",
                                                    !.now = now]]
    /\ UNCHANGED timestamps
    /\ OtherUnchanged

\* while self.timestamps ...
allow_purge(th) ==
    /\ callers[th].pc = "purge"
    /\ callers' = [callers EXCEPT ![th].pc =
                      IF timestamps # <<>> THEN "peek" ELSE "check"]
    /\ UNCHANGED timestamps
    /\ OtherUnchanged

\* ... and self.timestamps[0] < cutoff: IndexError when another caller has
\* emptied the deque meanwhile
allow_peek(th) ==
    /\ callers[th].pc = "peek"
    /\ callers' = [callers EXCEPT ![th].pc =
                      IF timestamps = <<>> THEN "IndexError"
                      ELSE IF timestamps[1] < Cutoff(callers[th].now)
                      THEN "popleft"
                      ELSE "check"]
    /\ UNCHANGED timestamps
    /\ OtherUnchanged

\* self.timestamps.popleft()
allow_popleft(th) ==
    /\ callers[th].pc = "popleft"
    /\ IF timestamps = <<>>
       THEN /\ callers' = [callers EXCEPT ![th].pc = "IndexError"]
            /\ UNCHANGED timestamps
       ELSE /\ callers' = [callers EXCEPT ![th].pc = "purge"]
            /\ timestamps' = Tail(timestamps)
    /\ OtherUnchanged

\* if len(self.timestamps) >= self.max_per_minute: return False
allow_check(th) ==
    /\ callers[th].pc = "check"
    /\ callers' = [callers EXCEPT ![th].pc =
                      IF Len(timestamps) >= max_per_minute
                      THEN "returned" ELSE "append"]
    /\ UNCHANGED timestamps
    /\ OtherUnchanged

\* self.timestamps.append(now); return True
allow_append(th) ==
    /\ callers[th].pc = "append"
    /\ timestamps' = Append(timestamps, callers[th].now)
    /\ callers' = [callers EXCEPT ![th] = [@ EXCEPT !.pc = "returned",
                                                    !.ret = TRUE]]
    /\ OtherUnchanged

\* the clock advances while callers are inside allow()
TickConcurrent ==
    /\ now + ClockStep <= MaxTime
    /\ now' = now + ClockStep
    /\ UNCHANGED <<PROCESS_KILL_ALLOWLIST, max_per_minute, timestamps, alive,
                   call, term_log, span, callers>>

NextConcurrent ==
    \/ \E th \in Callers :
          \/ allow_enter(th)
          \/ allow_purge(th)
          \/ allow_peek(th)
          \/ allow_popleft(th)
          \/ allow_check(th)
          \/ allow_append(th)
    \/ TickConcurrent

SpecConcurrent == Init /\ [][NextConcurrent]_vars

\* what class RateLimiter defines: the two fields and allow()
RateLimiterAttrs == {"max_per_minute", "timestamps", "allow"}

\* limiter.get_remaining(): RateLimiter has no such attribute, the lookup
\* raises AttributeError and the limiter is left as it was
get_remaining ==
    /\ "get_remaining" \notin RateLimiterAttrs
    /\ call' = [op |-> "get_remaining", raised |-> "AttributeError"]
    /\ UNCHANGED <<now, PROCESS_KILL_ALLOWLIST, max_per_minute, timestamps,
                   alive, term_log, span,
                   callers>>

\* limiter.reset(): RateLimiter has no such attribute either
reset ==
    /\ "reset" \notin RateLimiterAttrs
    /\ call' = [op |-> "reset", raised |-> "AttributeError"]
    /\ UNCHANGED <<now, PROCESS_KILL_ALLOWLIST, max_per_minute, timestamps,
                   alive, term_log, span,
                   callers>>

\* the rate limiter on its own, its first 60 seconds of calls counted
NextLimiter == allow_counted \/ Tick \/ get_remaining \/ reset

SpecLimiter == Init /\ [][NextLimiter]_vars

(***************************************************************************)
(* Properties.                                                             *)
(***************************************************************************)
IsKill == call.op = "kill_process"

IsAllow == call.op = "allow"

\* the process of the last kill_process call matches an allowlist entry
CallAllowlisted ==
    Allowlisted(ToLower(ProcName(call.req.pid)), PROCESS_KILL_ALLOWLIST)

\* the last kill_process call sent neither terminate() nor kill()
NoSignal == Signals(call.res.trace) = <<>>

\* the last kill_process call returned ok=false with the message msg
Rejected(msg) ==
    /\ call.res.raised = "none"
    /\ ~ call.res.ok
    /\ call.res.message = msg

\* the last kill_process call returned ok=true with the message msg
Succeeded(msg) ==
    /\ call.res.raised = "none"
    /\ call.res.ok
    /\ call.res.message = msg

\* C1: from an empty window, of the allow() calls made within 60 seconds of
\* the first one exactly the first max_per_minute return true: after k calls
\* min(k, max_per_minute) were granted, and the k-th returned true iff
\* k <= max_per_minute.
C1_FirstNAllowed ==
    span.start >= 0 =>
        /\ span.granted = Min(span.calls, max_per_minute)
        /\ (IsAllow /\ span.calls < MaxCalls) =>
               (call.ret <=> span.calls <= max_per_minute)

\* a call denied as number max_per_minute + 1, exactly 60 seconds after the
\* first one
C1_Witness ==
    /\ max_per_minute >= 1
    /\ span.start >= 0
    /\ now = span.start + WINDOW
    /\ span.calls = max_per_minute + 1
    /\ span.granted = max_per_minute
    /\ IsAllow
    /\ ~ call.ret

C3_UnsafeNeedsBothFlags ==
    (IsKill /\ ~ CallAllowlisted /\ ~ (call.req.confirm /\ call.req.unsafe))
        => /\ call.res.raised = "none"
           /\ ~ call.res.ok
           /\ NoSignal

\* confirm=true without unsafe=true on a live process outside the allowlist,
\* not a dry run, stopped at the safety gate
C3_Witness ==
    /\ IsKill
    /\ ~ CallAllowlisted
    /\ call.req.confirm
    /\ ~ call.req.unsafe
    /\ ~ call.req.dry_run
    /\ call.r2 = OK
    /\ Rejected(MsgNotAllowlisted)
    /\ NoSignal

\* C4: a kill_process call with confirm=false returns ok=false and sends no
\* signal, whatever pid, unsafe and dry_run are.
C4_ConfirmFalseRefused ==
    (IsKill /\ ~ call.req.confirm)
        => /\ call.res.raised = "none"
           /\ ~ call.res.ok
           /\ NoSignal

\* confirm=false on a live allowlisted process that passed the rate,
\* existence and safety gates
C4_Witness ==
    /\ IsKill
    /\ ~ call.req.confirm
    /\ call.req.dry_run
    /\ CallAllowlisted
    /\ call.r2 = OK
    /\ Rejected(MsgConfirm)

\* the rate, existence, safety and confirmation gates of section 4.4 all let
\* the last kill_process call through
GatesPass ==
    /\ call.allowed
    /\ call.r1 = OK
    /\ \/ process_is_safe(call.r2, ProcName(call.req.pid),
                          ~ call.req.unsafe, PROCESS_KILL_ALLOWLIST).is_safe
       \/ (call.req.confirm /\ call.req.unsafe)
    /\ call.req.confirm

\* C5: a kill_process call with dry_run=true sends no signal, and when the
\* rate, existence, safety and confirmation gates pass it returns ok=true
\* with the DRY RUN message.
C5_DryRunNoEffect ==
    (IsKill /\ call.req.dry_run)
        => /\ NoSignal
           /\ GatesPass => Succeeded(MsgDryRun)

\* the override path taken as a dry run on a process outside the allowlist
C5_Witness ==
    /\ IsKill
    /\ call.req.dry_run
    /\ call.req.unsafe
    /\ ~ CallAllowlisted
    /\ GatesPass
    /\ Succeeded(MsgDryRun)
    /\ call.req.pid \in alive

\* C6: past the rate and existence gates, a process matching no allowlist
\* entry with confirm=false or unsafe=false is rejected with the message
\* that asks for both confirm=true and unsafe=true.
C6_BothFlagsMessage ==
    (IsKill /\ call.allowed /\ call.r1 = OK /\ ~ CallAllowlisted
            /\ (~ call.req.confirm \/ ~ call.req.unsafe))
        => Rejected(MsgNotAllowlisted)

\* C7: when the window holds max_per_minute timestamps of the trailing 60
\* seconds, kill_process returns the rate-limit rejection without any call
\* on the operating system, whatever the pid and the flags.
C7_RateGateFirst ==
    (IsKill /\ call.full)
        => /\ Rejected(MsgRateLimit)
           /\ call.res.trace = <<>>

\* a fully flagged request for a pid that does not exist, rate limited
C7_Witness ==
    /\ IsKill
    /\ call.full
    /\ max_per_minute >= 1
    /\ call.req.pid \notin alive
    /\ call.r1 = NoSuchProcess
    /\ call.req.confirm
    /\ call.req.unsafe
    /\ Rejected(MsgRateLimit)

C9_Escalation ==
    IsKill =>
        /\ Signals(call.res.trace) \in
               {<<>>, <<"terminate">>, <<"terminate", "kill">>}
        /\ Signals(call.res.trace) = <<"terminate", "kill">>
               => call.w = TimeoutExpired
        /\ call.w = OK
               => Succeeded(MsgTerminated)
                  /\ Signals(call.res.trace) = <<"terminate">>
        /\ call.w = TimeoutExpired => Succeeded(MsgForceKilled)

\* C10: kill_process always returns {ok, message}; a failure of terminate(),
\* of the wait (other than a timeout) or of the escalated kill() gives
\* ok=false with the error text.
C10_NeverRaises ==
    IsKill =>
        /\ call.res.raised = "none"
        /\ ("terminate" \in Range(call.res.trace)
                /\ ~ Succeeded(MsgTerminated) /\ ~ Succeeded(MsgForceKilled))
               => Rejected(MsgFailed)

(***************************************************************************)
(* Config: the allowlist operations (config.py), and process_is_safe       *)
(* called on its own.                                                      *)
(***************************************************************************)
\* the characters of the modelled strings
Chars == {"a", "b", "c", "i", "x", "A", "B", "C", " "}

UpperChars == {"A", "B", "C"}

\* the process_name arguments tried: empty, upper, mixed and lower case
NameInputs == { <<>>, <<"A">>, <<"a", "B">>, <<"C">>, <<"i">> }

is_process_name_safe_exact(process_name, allowlist) ==
    IF process_name = <<>> THEN FALSE ELSE process_name \in allowlist
\* Config.is_process_name_safe
is_process_name_safe(process_name, allowlist) ==
    IF process_name = <<>> THEN FALSE ELSE ToLower(process_name) \in allowlist

AddToAllowlist_raw(allowlist, process_name) ==
    IF process_name # <<>> THEN allowlist \cup {process_name} ELSE allowlist
\* Config.add_to_allowlist: the allowlist after the call
AddToAllowlist(allowlist, process_name) ==
    IF process_name # <<>>
    THEN allowlist \cup {ToLower(process_name)}
    ELSE allowlist

\* Config.remove_from_allowlist: the allowlist after the call
RemoveFromAllowlist(allowlist, process_name) ==
    IF process_name # <<>>
    THEN allowlist \ {ToLower(process_name)}
    ELSE allowlist

add_to_allowlist ==
    \E process_name \in NameInputs :
        /\ PROCESS_KILL_ALLOWLIST' =
               AddToAllowlist(PROCESS_KILL_ALLOWLIST, process_name)
        /\ call' = [op |-> "add_to_allowlist", name |-> process_name]
        /\ UNCHANGED <<now, max_per_minute, timestamps, alive, term_log,
                       span,
                       callers>>

remove_from_allowlist ==
    \E process_name \in NameInputs :
        /\ PROCESS_KILL_ALLOWLIST' =
               RemoveFromAllowlist(PROCESS_KILL_ALLOWLIST, process_name)
        /\ call' = [op |-> "remove_from_allowlist", name |-> process_name]
        /\ UNCHANGED <<now, max_per_minute, timestamps, alive, term_log,
                       span,
                       callers>>

\* process_is_safe(pid, require_allowlist) called directly
classify ==
    \E pid \in Pids, require_allowlist \in BOOLEAN :
    \E resolved \in ResolveOutcomes(pid, alive) :
        /\ call' = [op |-> "process_is_safe", pid |-> pid,
                    require_allowlist |-> require_allowlist,
                    resolved |-> resolved,
                    res |-> process_is_safe(resolved, ProcName(pid),
                                            require_allowlist,
                                            PROCESS_KILL_ALLOWLIST)]
        /\ UNCHANGED <<now, PROCESS_KILL_ALLOWLIST, max_per_minute,
                       timestamps, alive, term_log, span,
                       callers>>

NextSafety ==
    \/ add_to_allowlist
    \/ remove_from_allowlist
    \/ classify
    \/ ProcExit
    \/ ProcSpawn

SpecSafety == Init /\ [][NextSafety]_vars

IsClassify == call.op = "process_is_safe"

\* C11: process_is_safe answers not-safe for pid 1 whatever the allowlist
\* and require_allowlist are, and kill_process sends no signal to pid 1.
C11_Pid1NeverSafe ==
    /\ (IsClassify /\ call.pid = 1) => ~ call.res.is_safe
    /\ (IsKill /\ call.req.pid = 1) => NoSignal

Occurs(e, n) ==
    \E pre \in 0..Len(n), suf \in 0..Len(n) :
        /\ pre + Len(e) + suf = Len(n)
        /\ \A k \in 1..Len(e) : n[pre + k] = e[k]

\* C13: with require_allowlist=true a resolvable process is safe iff some
\* allowlist entry occurs as a substring of its lowercased name.
C13_SubstringMatch ==
    (IsClassify /\ call.resolved = OK /\ call.require_allowlist)
        => (call.res.is_safe <=>
                \E e \in PROCESS_KILL_ALLOWLIST :
                    Occurs(e, ToLower(ProcName(call.pid))))

\* a process made safe by an entry that is strictly inside its name, which
\* has an upper-case letter
C13_Witness ==
    /\ IsClassify
    /\ call.resolved = OK
    /\ call.require_allowlist
    /\ call.res.is_safe
    /\ ProcName(call.pid) # ToLower(ProcName(call.pid))
    /\ \A e \in PROCESS_KILL_ALLOWLIST :
           /\ e # ToLower(ProcName(call.pid))
           /\ ~ Contains_prefix(ToLower(ProcName(call.pid)), e)

\* C18: every allowlist entry is non-empty and has no upper-case letter.
C18_EntriesLowerNonEmpty ==
    \A e \in PROCESS_KILL_ALLOWLIST :
        /\ Len(e) > 0
        /\ \A i \in 1..Len(e) : e[i] \notin UpperChars

\* a mixed-case name was added and is held in lower case
C18_Witness ==
    /\ call.op = "add_to_allowlist"
    /\ call.name = <<"a", "B">>
    /\ <<"a", "b">> \in PROCESS_KILL_ALLOWLIST

\* the strings equal to n ignoring case
CaseVariants(n) ==
    { m \in [1..Len(n) -> Chars] :
        \A i \in 1..Len(n) : LowerChar(m[i]) = LowerChar(n[i]) }

\* C19 as claimed: after add_to_allowlist(n), is_process_name_safe(m) is
\* true for every m equal to n ignoring case; after remove_from_allowlist(n)
\* the lowercased name is not in the allowlist.
C19_AddThenSafe ==
    /\ call.op = "add_to_allowlist"
           => \A m \in CaseVariants(call.name) :
                  is_process_name_safe(m, PROCESS_KILL_ALLOWLIST)
    /\ call.op = "remove_from_allowlist"
           => ToLower(call.name) \notin PROCESS_KILL_ALLOWLIST

\* C19 as amended: the same for every non-empty n.
C19_AddNonEmptyThenSafe ==
    /\ (call.op = "add_to_allowlist" /\ call.name # <<>>)
           => \A m \in CaseVariants(call.name) :
                  is_process_name_safe(m, PROCESS_KILL_ALLOWLIST)
    /\ call.op = "remove_from_allowlist"
           => ToLower(call.name) \notin PROCESS_KILL_ALLOWLIST

\* a mixed-case name was added and is safe in its other spellings
C19_Witness ==
    /\ call.op = "add_to_allowlist"
    /\ call.name = <<"a", "B">>
    /\ is_process_name_safe(<<"A", "b">>, PROCESS_KILL_ALLOWLIST)
    /\ is_process_name_safe(<<"A", "B">>, PROCESS_KILL_ALLOWLIST)
    /\ Cardinality(CaseVariants(call.name)) = 4

\* the clock values from t on at which allow() may next be called
Later(t) == { t + k * ClockStep : k \in 0..((2 * WINDOW) \div ClockStep) }

\* C14: a denied allow() appends nothing: the window after it is the window
\* before it less the entries older than 60 seconds, and at every later
\* clock value allow() answers as it would have without the denied call.
C14_DeniedNotRecorded ==
    (IsAllow /\ ~ call.ret)
        => /\ timestamps = Trailing(call.before, now)
           /\ \A t \in Later(now) :
                  AllowResult(timestamps, t, max_per_minute)
                      <=> AllowResult(call.before, t, max_per_minute)

\* a second denied call in a row, on a limit of at least 1
C14_Witness ==
    /\ IsAllow
    /\ ~ call.ret
    /\ max_per_minute >= 1
    /\ span.start >= 0
    /\ span.calls = max_per_minute + 2
    /\ span.granted = max_per_minute
    /\ Len(timestamps) = max_per_minute

\* C15: after allow() no recorded timestamp is older than 60 seconds, and
\* on a full window whose oldest timestamp is more than 60 seconds old
\* allow() returns true (max_per_minute >= 1).
C15_WindowSlides ==
    IsAllow =>
        /\ \A i \in 1..Len(timestamps) : timestamps[i] >= now - WINDOW
        /\ (/\ max_per_minute >= 1
            /\ Len(call.before) = max_per_minute
            /\ now > call.before[1] + WINDOW)
               => call.ret

\* a full window whose oldest entry went stale by one clock step: the call
\* is accepted and the entry is gone
C15_Witness ==
    /\ IsAllow
    /\ max_per_minute >= 2
    /\ Len(call.before) = max_per_minute
    /\ now = call.before[1] + WINDOW + ClockStep
    /\ call.ret
    /\ call.before[1] \notin Range(timestamps)
    /\ call.before[2] \in Range(timestamps)

\* C16: get_remaining() returns max_per_minute minus the number of
\* timestamps in the window.
C16_GetRemaining ==
    call.op = "get_remaining"
        => /\ call.raised = "none"
           /\ call.ret = max_per_minute - Len(timestamps)

\* C17: reset() leaves the window empty, so that allow() then returns true
\* (max_per_minute >= 1).
C17_Reset ==
    call.op = "reset"
        => /\ call.raised = "none"
           /\ timestamps = <<>>
           /\ max_per_minute >= 1
                  => AllowResult(timestamps, now, max_per_minute)

(***************************************************************************)
(* process_list (process_tools.py).                                        *)
(***************************************************************************)
\* Python's None, where a string is expected
None == <<"None">>

\* ord() of the characters of the modelled strings
CharCode(c) ==
    CASE c = " " -> 32
      [] c = "A" -> 65
      [] c = "B" -> 66
      [] c = "C" -> 67
      [] c = "a" -> 97
      [] c = "b" -> 98
      [] c = "c" -> 99
      [] c = "i" -> 105
      [] c = "x" -> 120

\* str.__lt__: lexicographic by code point
RECURSIVE StrLess(_, _)
StrLess(s, t) ==
    IF s = <<>> THEN t # <<>>
    ELSE IF t = <<>> THEN FALSE
    ELSE IF Head(s) # Head(t) THEN CharCode(Head(s)) < CharCode(Head(t))
    ELSE StrLess(Tail(s), Tail(t))

\* the processes psutil.process_iter yields, in pid order.  name is None
\* where psutil was denied the name (as_dict's ad_value); measure is what
\* the readings of the second pass do, 0.2 seconds later
ListPids == 1..3

ListNames == { None, <<"B">>, <<"a", "b">> }

\* the user names the process table gives, by pid; the last could not be read
ListUsers == << <<"r">>, <<"x">>, None >>

Row(pid, name, cpu, measure) ==
    [pid |-> pid, name |-> name, username |-> ListUsers[pid],
     cpu_percent |-> cpu, memory_percent |-> (pid + cpu) % 2,
     measure |-> measure]

Tables ==
    { <<Row(1, f[1][1], f[1][2], f[1][3]),
        Row(2, f[2][1], f[2][2], f[2][3]),
        Row(3, f[3][1], f[3][2], f[3][3])>> :
        f \in [ListPids -> ListNames \X {0, 1} \X {OK, NoSuchProcess, AccessDenied}] }

\* the arguments of list_processes
SortKeys == {"cpu", "memory", "pid", "name", "size"}

Limits == 0..MaxListLimit

NameFilters == { None, <<"B">> }

UserFilters == { None, <<"x">> }

\* _snapshot_processes: every process yielded, with its info
snapshot_processes(table) == table

\* _measure_after_interval: the processes whose readings succeed
measure_after_interval(procs) ==
    LET read == SelectSeq(procs, LAMBDA p : p.measure = OK)
    IN [i \in 1..Len(read) |->
            [pid |-> read[i].pid, name |-> read[i].name,
             username |-> read[i].username,
             cpu_percent |-> read[i].cpu_percent,
             memory_percent |-> read[i].memory_percent]]

\* sort_keys.get(sort_by, "cpu_percent")
SortKey(sort_by) ==
    CASE sort_by = "cpu" -> "cpu_percent"
      [] sort_by = "memory" -> "memory_percent"
      [] sort_by = "pid" -> "pid"
      [] sort_by = "name" -> "name"
      [] OTHER -> "cpu_percent"

\* reverse = sort_key in ["cpu_percent", "memory_percent"]
Reverse(sort_key) == sort_key \in {"cpu_percent", "memory_percent"}

\* x[sort_key] < y[sort_key]
KeyLess(x, y, sort_key) ==
    IF sort_key = "name" THEN StrLess(x.name, y.name)
    ELSE x[sort_key] < y[sort_key]

\* x goes ahead of y in the sorted list
Ahead(x, y, sort_key, reverse) ==
    IF reverse THEN KeyLess(y, x, sort_key) ELSE KeyLess(x, y, sort_key)

\* list.sort is stable: x, which came after the members of sorted, is put
\* in front of the first of them it goes ahead of
RECURSIVE InsertSorted(_, _, _, _)
InsertSorted(x, sorted, sort_key, reverse) ==
    IF sorted = <<>> THEN <<x>>
    ELSE IF Ahead(x, Head(sorted), sort_key, reverse)
    THEN <<x>> \o sorted
    ELSE <<Head(sorted)>> \o InsertSorted(x, Tail(sorted), sort_key, reverse)

RECURSIVE SortList(_, _, _)
SortList(procs, sort_key, reverse) ==
    IF procs = <<>> THEN <<>>
    ELSE InsertSorted(procs[Len(procs)],
                      SortList(SubSeq(procs, 1, Len(procs) - 1),
                               sort_key, reverse),
                      sort_key, reverse)

\* processes.sort raises TypeError when it compares a None name
SortRaises(procs, sort_key) ==
    /\ sort_key = "name"
    /\ Len(procs) >= 2
    /\ \E i \in 1..Len(procs) : procs[i].name = None

\* processes[:limit]
Slice(procs, limit) ==
    IF limit >= 0
    THEN SubSeq(procs, 1, Min(limit, Len(procs)))
    ELSE SubSeq(procs, 1, Len(procs) + limit)

\* the list returned, or the exception that left process_list
Listed(procs) == [raised |-> "none", ret |-> procs]

ListRaised(exc) == [raised |-> exc, ret |-> <<>>]

process_list(table, sort_by, limit, name_contains, user) ==
    LET processes == measure_after_interval(snapshot_processes(table))
        by_name ==
            IF name_contains # None /\ name_contains # <<>>
            THEN SelectSeq(processes,
                     LAMBDA p : Contains(ToLower(p.name),
                                         ToLower(name_contains)))
            ELSE processes
        by_user ==
            IF user # None /\ user # <<>>
            THEN SelectSeq(by_name, LAMBDA p : p.username = user)
            ELSE by_name
        sort_key == SortKey(sort_by)
    IN IF /\ name_contains # None /\ name_contains # <<>>
          /\ \E i \in 1..Len(processes) : processes[i].name = None
       THEN \* p["name"].lower() on None
            ListRaised("AttributeError")
       ELSE IF SortRaises(by_user, sort_key)
       THEN ListRaised("TypeError")
       ELSE Listed(Slice(SortList(by_user, sort_key, Reverse(sort_key)),
                         limit))

\* the process table of a list_processes call is drawn at the start
InitList ==
    /\ now = 0
    /\ PROCESS_KILL_ALLOWLIST = {}
    /\ max_per_minute = DEFAULT_RATE_LIMIT
    /\ timestamps = <<>>
    /\ alive = {}
    /\ term_log = <<>>
    /\ span = NoSpan
    /\ callers = [th \in Callers |-> IdleCaller]
    /\ \E table \in Tables : call = [op |-> "table", table |-> table]

\* the list_processes tool
list_processes ==
    /\ call.op = "table"
    /\ \E sort_by \in SortKeys, limit \in Limits,
          name_contains \in NameFilters, user \in UserFilters :
          call' = [op |-> "process_list", table |-> call.table,
                   sort_by |-> sort_by, limit |-> limit,
                   name_contains |-> name_contains, user |-> user,
                   res |-> process_list(call.table, sort_by, limit,
                                        name_contains, user)]
    /\ UNCHANGED <<now, PROCESS_KILL_ALLOWLIST, max_per_minute, timestamps,
                   alive, term_log, span,
                   callers>>

NextList == list_processes

SpecList == InitList /\ [][NextList]_vars

(***************************************************************************)
(* get_system_summary (system_tools.py).                                   *)
(***************************************************************************)
\* system_tools.py:68  window_s = max(1, min(60, window_s))
WINDOW_S_MIN == 1
WINDOW_S_MAX == 60
\* system_tools.py:69  top_n = max(1, min(10, top_n))
TOP_N_MIN == 1
TOP_N_MAX == 10
\* system_tools.py:87  d["percent"] > 80
HIGH_USAGE == 80

ClampWindow_nofloor(window_s) == Min(WINDOW_S_MAX, window_s)
\* the validated window_s
ClampWindow(window_s) == Max(WINDOW_S_MIN, Min(WINDOW_S_MAX, window_s))

\* the validated top_n
ClampTopN(top_n) == Max(TOP_N_MIN, Min(TOP_N_MAX, top_n))

\* for _ in range(window_s): the rounds of the sampling loop, each one
\* blocking psutil.cpu_percent(interval=1) and one virtual_memory().percent
SampleRounds(window_s) == 1..window_s

\* what round i reads under a load profile
CpuReading(profile, i) == profile * (i % 2) * 100

MemReading(profile, i) == profile * 50

\* sum(samples)
RECURSIVE Sum(_)
Sum(samples) ==
    IF samples = <<>> THEN 0 ELSE Head(samples) + Sum(Tail(samples))

\* the mounted partitions: what disk_usage gives for each, in order
DiskTables ==
    { <<>>,
      << [mount |-> 1, usage |-> OK, percent |-> HIGH_USAGE] >>,
      << [mount |-> 1, usage |-> OK, percent |-> HIGH_USAGE + 1],
         [mount |-> 2, usage |-> "PermissionError", percent |-> 100],
         [mount |-> 3, usage |-> OK, percent |-> 0],
         [mount |-> 4, usage |-> OK, percent |-> 100] >>,
      << [mount |-> 1, usage |-> OK, percent |-> 100],
         [mount |-> 2, usage |-> OSError, percent |-> 100] >> }

\* get_disk: the partitions whose usage could be read; PermissionError is
\* skipped, any other error leaves the function
get_disk(disks) ==
    IF \E i \in 1..Len(disks) : disks[i].usage \notin {OK, "PermissionError"}
    THEN [raised |-> OSError, ret |-> <<>>]
    ELSE LET read == SelectSeq(disks, LAMBDA d : d.usage = OK)
         IN [raised |-> "none",
             ret |-> [i \in 1..Len(read) |->
                         [mount |-> read[i].mount,
                          percent |-> read[i].percent]]]

\* the process tables get_system_summary is run on: none, two and MaxProcs
\* processes; in the second pattern every fourth process has vanished by
\* the second pass
SummaryTables ==
    { [pid \in 1..n |->
          [pid |-> pid,
           name |-> IF pid % 2 = 0 THEN None ELSE <<"B">>,
           username |-> None,
           cpu_percent |-> (pid * k) % 3,
           memory_percent |-> pid % 2,
           measure |-> IF k = 2 /\ pid % 4 = 0 THEN NoSuchProcess ELSE OK]] :
      n \in {0, 2, MaxProcs}, k \in 1..2 }

\* the cpu and memory load while sampling: idle, or busy every other second
LoadProfiles == {0, 1}

get_system_summary_result(table, disks, window_s, top_n, profile) ==
    LET window == ClampWindow(window_s)
        top == ClampTopN(top_n)
        cpu_samples == [i \in SampleRounds(window) |-> CpuReading(profile, i)]
        mem_samples == [i \in SampleRounds(window) |-> MemReading(profile, i)]
        top_processes == process_list(table, "cpu", top, None, None)
        all_disks == get_disk(disks)
        high_usage_disks ==
            SelectSeq(all_disks.ret, LAMBDA d : d.percent > HIGH_USAGE)
        raised == IF top_processes.raised # "none" THEN top_processes.raised
                  ELSE all_disks.raised
    IN [raised |-> raised,
        samples |-> Len(cpu_samples),
        cpu_sum |-> Sum(cpu_samples),
        mem_sum |-> Sum(mem_samples),
        top_processes |-> IF raised = "none" THEN top_processes.ret ELSE <<>>,
        high_usage_disks |-> IF raised = "none" THEN high_usage_disks
                             ELSE <<>>]

\* the host get_system_summary runs on is drawn at the start
InitSummary ==
    /\ now = 0
    /\ PROCESS_KILL_ALLOWLIST = {}
    /\ max_per_minute = DEFAULT_RATE_LIMIT
    /\ timestamps = <<>>
    /\ alive = {}
    /\ term_log = <<>>
    /\ span = NoSpan
    /\ callers = [th \in Callers |-> IdleCaller]
    /\ \E table \in SummaryTables, disks \in DiskTables :
          call = [op |-> "host", table |-> table, disks |-> disks]

\* the get_system_summary tool; the clock moves on by one second per sample
get_system_summary ==
    /\ call.op = "host"
    /\ \E window_s \in (-1)..MaxWindowArg, top_n \in (-1)..MaxTopArg,
          profile \in LoadProfiles :
          LET res == get_system_summary_result(call.table, call.disks,
                                               window_s, top_n, profile)
          IN /\ call' = [op |-> "get_system_summary", table |-> call.table,
                         disks |-> call.disks, window_s |-> window_s,
                         top_n |-> top_n, res |-> res]
             /\ now' = now + res.samples
    /\ UNCHANGED <<PROCESS_KILL_ALLOWLIST, max_per_minute, timestamps,
                   alive, term_log, span,
                   callers>>

NextSummary == get_system_summary

SpecSummary == InitSummary /\ [][NextSummary]_vars

IsList == call.op = "process_list"

\* the records of the call's table that were measured and pass its filters
Passes(p) ==
    /\ p.measure = OK
    /\ \/ call.name_contains \in {None, <<>>}
       \/ /\ p.name # None
          /\ Occurs(ToLower(call.name_contains), ToLower(p.name))
    /\ \/ call.user \in {None, <<>>}
       \/ p.username = call.user

FilteredPids == { i \in ListPids : Passes(call.table[i]) }

\* a goes strictly ahead of b in the order the call asked for
StrictlyAhead(a, b) ==
    LET sort_key == SortKey(call.sort_by)
        ka == IF sort_key = "name" THEN a.name ELSE a[sort_key]
        kb == IF sort_key = "name" THEN b.name ELSE b[sort_key]
        less(x, y) == IF sort_key = "name" THEN StrLess(x, y) ELSE x < y
    IN IF call.sort_by \in {"pid", "name"} THEN less(ka, kb) ELSE less(kb, ka)

\* the list returned is ordered, holds filtered records only, each once,
\* as many as the limit allows, and leaves out none that goes ahead of one
\* it holds
FirstOfOrdered(ret) ==
    /\ Len(ret) = Min(call.limit, Cardinality(FilteredPids))
    /\ \A i \in 1..Len(ret) :
          /\ ret[i].pid \in FilteredPids
          /\ ret[i].name = call.table[ret[i].pid].name
          /\ ret[i].cpu_percent = call.table[ret[i].pid].cpu_percent
    /\ \A i, j \in 1..Len(ret) :
          i < j => /\ ret[i].pid # ret[j].pid
                   /\ ~ StrictlyAhead(ret[j], ret[i])
    /\ \A q \in FilteredPids :
          (\A i \in 1..Len(ret) : ret[i].pid # q)
              => \A i \in 1..Len(ret) :
                    ~ StrictlyAhead(call.table[q], ret[i])

\* C20: for every snapshot, filter and limit, list_processes returns the
\* first `limit` of the filtered records in the order of the selected key
\* (cpu and memory descending, pid and name ascending, anything else as
\* cpu), and never more than `limit` records
C20_ListSortedAndLimited ==
    IsList =>
        /\ call.res.raised = "none"
        /\ Len(call.res.ret) <= call.limit
        /\ FirstOfOrdered(call.res.ret)

\* C20, where every name in the table was readable: the same holds
C20_WhenNamesReadable ==
    (IsList /\ \A i \in ListPids : call.table[i].name # None) =>
        /\ call.res.raised = "none"
        /\ Len(call.res.ret) <= call.limit
        /\ FirstOfOrdered(call.res.ret)

\* C21: list_processes never fails outright: whatever the process table
\* does (processes vanishing or denying access in either pass, names or
\* user names that could not be read) and whatever the filter and sort key
\* are, it returns a list, made of the records it could read.
C21_ListNeverRaises ==
    IsList =>
        /\ call.res.raised = "none"
        /\ \A i \in 1..Len(call.res.ret) :
              call.table[call.res.ret[i].pid].measure = OK

\* C24: every allowlist membership test is a case-insensitive substring
\* match: Config.is_process_name_safe(name) is true exactly when some
\* allowlist entry occurs inside the lowercased name, and so agrees with
\* what process_is_safe(require_allowlist=true) decides for a process of
\* that name.
C24_MembershipAgrees ==
    (IsClassify /\ call.resolved = OK /\ call.require_allowlist)
        => LET name == ProcName(call.pid)
               by_config ==
                   is_process_name_safe(name, PROCESS_KILL_ALLOWLIST)
           IN /\ by_config <=> \E e \in PROCESS_KILL_ALLOWLIST :
                                  Occurs(e, ToLower(name))
              /\ call.res.is_safe <=> by_config

\* C25: a kill_process call that passes the rate gate records one timestamp
\* whatever it then returns (not found, access denied, not allowlisted,
\* confirmation required, dry run, terminated or failed), a call that does
\* not pass records none, and once max_per_minute timestamps lie in the
\* trailing 60 seconds the next call is rejected as rate limited.
C25_GateConsumesBudget ==
    [][ call'.op = "kill_process"
          => /\ call'.allowed
                   => timestamps' = Append(Trailing(timestamps, now), now)
             /\ ~ call'.allowed
                   => timestamps' = Trailing(timestamps, now)
             /\ InWindow(timestamps, now) >= max_per_minute
                   => /\ ~ call'.allowed
                      /\ call'.res = Returned(FALSE, MsgRateLimit, <<>>)
       ]_vars

\* the budget is used up by calls none of which sent a signal, and a further
\* call is turned away
C25_Witness ==
    /\ IsKill
    /\ ~ call.allowed
    /\ Rejected(MsgRateLimit)
    /\ max_per_minute >= 1
    /\ Len(timestamps) = max_per_minute
    /\ term_log = <<>>
    /\ alive = Pids

IsSummary == call.op = "get_system_summary"

\* C22: for every integer window_s and top_n, in range or not,
\* get_system_summary takes exactly min(60, max(1, window_s)) one-second
\* samples, one after the other, and what it returns has at most
\* min(10, max(1, top_n)) top_processes and only disks above 80 percent in
\* high_usage_disks.
C22_SummaryClamped ==
    IsSummary =>
        /\ call.res.samples = Min(60, Max(1, call.window_s))
        /\ now = call.res.samples
        /\ call.res.raised = "none" =>
              /\ Len(call.res.top_processes) <= Min(10, Max(1, call.top_n))
              /\ \A i \in 1..Len(call.res.high_usage_disks) :
                    call.res.high_usage_disks[i].percent > 80

\* both arguments above their ranges on the largest table: 60 samples, ten
\* of the measured processes, and of the disks only those above 80 percent
C22_Witness ==
    /\ IsSummary
    /\ call.window_s > 60
    /\ call.top_n > 10
    /\ call.res.raised = "none"
    /\ call.res.samples = 60
    /\ Len(SelectSeq(call.table, LAMBDA p : p.measure = OK)) > 10
    /\ Len(call.res.top_processes) = 10
    /\ Len(call.res.high_usage_disks) = 2
    /\ Len(call.disks) = 4

\* both arguments below their ranges: one sample and one process
C22_WitnessBelow ==
    /\ IsSummary
    /\ call.window_s < 1
    /\ call.top_n < 1
    /\ call.res.samples = 1
    /\ Len(call.res.top_processes) = 1

\* the callers whose allow() has returned true for a clock reading of the
\* trailing 60 seconds
Granted ==
    { th \in Callers : /\ callers[th].pc = "returned"
                       /\ callers[th].ret
                       /\ callers[th].now >= now - WINDOW }

\* C23: accesses to the rate window are serialized: however the purge,
\* length-check and append steps of concurrent callers interleave, the
\* window never holds more than max_per_minute timestamps of the trailing
\* 60 seconds and no more than max_per_minute of the calls are allowed.
C23_ConcurrentWindowBounded ==
    /\ InWindow(timestamps, now) <= max_per_minute
    /\ Cardinality(Granted) <= max_per_minute

====
